---------------------------- MODULE Spec2Model ----------------------------
(***************************************************************************)
(* ComposeBox: a content-editable compose box.  The canonical text         *)
(* (content), the editable tree (editorRef.current.childNodes), the         *)
(* renderer / serializer pair that converts between the two, the mention   *)
(* validation effect, the emoji suggestion state and the submission        *)
(* handler are modelled from                                                *)
(*   src/unnamed/part_000                      (variant with suggestions)  *)
(*   src/src/components/general/ComposeBox.tsx (variant without)           *)
(* JavaScript strings are TLA+ strings; Ch, SubSeq, Len and \o are the     *)
(* only string operations used.                                            *)
(***************************************************************************)
EXTENDS Integers, Sequences, FiniteSets, TLC

VARIABLES
    fnArg,      \* argument handed to the pure function under test
    fnHtml,     \* markup returned by renderContentHtml(fnArg)
    fnTree,     \* child nodes of an element whose innerHTML was set to fnHtml
    fnOut,      \* string result (escapeHtml / serialization)
    fnStep      \* which function has been applied

VARIABLES
    content,            \* useState: canonical text (latest setContent)
    isSubmitting,       \* useState: submission in flight
    validatedMentions,  \* useState: sequence of [pubkey |-> ...]
    emojiQuery,         \* useState: live suggestion query
    emojiActiveIndex,   \* useState: highlighted suggestion
    view,               \* state values captured by the last committed render:
                        \* what the handlers and effects of that render read
    effects,            \* effects of the last render that have not run yet
    editor,             \* editorRef.current.childNodes
    selection,          \* window.getSelection()
    lastContentRef,     \* lastContentRef.current
    emojiRangeRef,      \* emojiRangeRef.current
    privateKey,         \* useAuth().privateKey ("" when absent)
    sends,              \* handlePost calls awaiting sendTransaction
    passes,             \* validateMentions calls awaiting the validator
    inserts,            \* picker and suggestion insertions made so far
    calls               \* history: the external calls the latest step made, in order

fnVars == <<fnArg, fnHtml, fnTree, fnOut, fnStep>>

stateVars == <<content, isSubmitting, validatedMentions, emojiQuery, emojiActiveIndex>>

domVars == <<editor, selection, lastContentRef, emojiRangeRef>>

compVars ==
    <<stateVars, view, effects, domVars, privateKey, sends, passes, inserts, calls>>

vars == <<fnVars, compVars>>

----------------------------------------------------------------------------
(* Strings *)

Ch(s, i) == SubSeq(s, i, i)

StartsWithAt(s, i, lit) ==
    /\ i >= 1
    /\ i + Len(lit) - 1 <= Len(s)
    /\ SubSeq(s, i, i + Len(lit) - 1) = lit

EndsWith(s, lit) ==
    /\ Len(lit) <= Len(s)
    /\ SubSeq(s, Len(s) - Len(lit) + 1, Len(s)) = lit

\* String.prototype.replace(/c/g, r) for a one-character pattern c
RECURSIVE ReplaceAllFrom(_, _, _, _)
ReplaceAllFrom(s, c, r, i) ==
    IF i > Len(s) THEN ""
    ELSE (IF Ch(s, i) = c THEN r ELSE Ch(s, i)) \o ReplaceAllFrom(s, c, r, i + 1)

ReplaceAll(s, c, r) == ReplaceAllFrom(s, c, r, 1)

Digit == {"0", "1", "2", "3", "4", "5", "6", "7", "8", "9"}

Alpha == {"a", "b", "c", "d", "e", "f", "g", "h", "i", "j", "k", "l", "m",
          "n", "o", "p", "q", "r", "s", "t", "u", "v", "w", "x", "y", "z",
          "A", "B", "C", "D", "E", "F", "G", "H", "I", "J", "K", "L", "M",
          "N", "O", "P", "Q", "R", "S", "T", "U", "V", "W", "X", "Y", "Z"}

AlphaNum == Alpha \cup Digit

\* first index >= i whose character is outside class (Len(s) + 1 when none)
RECURSIVE RunEnd(_, _, _)
RunEnd(s, i, class) ==
    IF i <= Len(s) /\ Ch(s, i) \in class THEN RunEnd(s, i + 1, class) ELSE i

----------------------------------------------------------------------------
(* escapeHtml *)

\* a plausible slip: the ampersand replaced last, so the & of the entities
\* introduced by the other four replacements is escaped again
escapeHtmlAmpLast(value) ==
    ReplaceAll(ReplaceAll(ReplaceAll(ReplaceAll(ReplaceAll(value,
        "<", "&lt;"), ">", "&gt;"), "\"", "&quot;"), "'", "&#039;"), "&", "&amp;")

escapeHtml(value) ==
    ReplaceAll(ReplaceAll(ReplaceAll(ReplaceAll(ReplaceAll(value,
        "&", "&amp;"), "<", "&lt;"), ">", "&gt;"), "\"", "&quot;"), "'", "&#039;")

----------------------------------------------------------------------------
(* emoteUrlRegex and renderContentHtml *)

EmotePrefix == "://cdn.7tv.app/emote/"

\* an extension test that takes any run of letters and digits
ExtEndAnyExtension(s, i) ==
    IF RunEnd(s, i, AlphaNum) > i THEN RunEnd(s, i, AlphaNum) ELSE 0

\* the extension alternation (?:webp|png|avif), tried in that order
ExtEnd(s, i) ==
    IF StartsWithAt(s, i, "webp") THEN i + 4
    ELSE IF StartsWithAt(s, i, "png") THEN i + 3
    ELSE IF StartsWithAt(s, i, "avif") THEN i + 4
    ELSE 0

\* /https?:\/\/cdn\.7tv\.app\/emote\/[A-Za-z0-9]+\/\d+x\.(?:webp|png|avif)/
\* anchored at index i: the index just past the match, 0 when it fails there
EmoteMatchEnd(s, i) ==
    IF ~StartsWithAt(s, i, "http") THEN 0
    ELSE LET a == IF StartsWithAt(s, i + 4, "s" \o EmotePrefix) THEN i + 5 ELSE i + 4
         IN IF ~StartsWithAt(s, a, EmotePrefix) THEN 0
            ELSE LET idStart == a + Len(EmotePrefix)
                     idEnd   == RunEnd(s, idStart, AlphaNum)
                 IN IF idEnd = idStart \/ ~StartsWithAt(s, idEnd, "/") THEN 0
                    ELSE LET dStart == idEnd + 1
                             dEnd   == RunEnd(s, dStart, Digit)
                         IN IF dEnd = dStart \/ ~StartsWithAt(s, dEnd, "x.") THEN 0
                            ELSE ExtEnd(s, dEnd + 2)

\* regex.exec with the g flag: the leftmost match at or after from (0: null)
RECURSIVE EmoteExec(_, _)
EmoteExec(s, from) ==
    IF from > Len(s) THEN 0
    ELSE IF EmoteMatchEnd(s, from) > 0 THEN from
    ELSE EmoteExec(s, from + 1)

ImgTag(url) ==
    "<img data-emote-url=\"" \o url \o "\" src=\"" \o url
        \o "\" alt=\"7TV emote\" style=\"height:1.5rem;width:1.5rem;"
        \o "display:inline-block;vertical-align:text-bottom;\" />"

\* a plausible slip: the text segment appended without escaping
SegmentHtmlRaw(seg) == ReplaceAll(seg, "\n", "<br/>")

\* escapeHtml(textSegment).replace(/\n/g, '<br/>')
SegmentHtml(seg) == ReplaceAll(escapeHtml(seg), "\n", "<br/>")

\* the while loop of renderContentHtml, lastIndex being 1-based here
RECURSIVE RenderFrom(_, _)
RenderFrom(value, lastIndex) ==
    LET start == EmoteExec(value, lastIndex)
    IN IF start = 0
       THEN SegmentHtml(SubSeq(value, lastIndex, Len(value)))
       ELSE LET end == EmoteMatchEnd(value, start)
                url == SubSeq(value, start, end - 1)
            IN SegmentHtml(SubSeq(value, lastIndex, start - 1))
                   \o ImgTag(url) \o RenderFrom(value, end)

renderContentHtml(value) == RenderFrom(value, 1)

\* two well-formed emote URLs
UrlPng == "https://cdn.7tv.app/emote/a1/2x.png"

UrlWebp == "http://cdn.7tv.app/emote/Z/10x.webp"

----------------------------------------------------------------------------
(* DOM nodes *)

TextNode(d) ==
    [nodeType |-> "TEXT_NODE", tagName |-> "", data |-> d,
     dataset |-> {}, childNodes |-> <<>>]

\* dataset holds the value of data-emote-url when the attribute is present
Element(tag, ds, kids) ==
    [nodeType |-> "ELEMENT_NODE", tagName |-> tag, data |-> "",
     dataset |-> ds, childNodes |-> kids]

CommentNode(d) ==
    [nodeType |-> "COMMENT_NODE", tagName |-> "", data |-> d,
     dataset |-> {}, childNodes |-> <<>>]

----------------------------------------------------------------------------
(* editor.innerHTML = html: the fragment parser, for the markup the        *)
(* renderer can emit (text with character references, void <br/> and       *)
(* <img .../> tags); any other start tag opens an element that holds the   *)
(* rest of the fragment.                                                    *)

EntityNames == <<"&amp;", "&lt;", "&gt;", "&quot;", "&#039;">>

EntityChars == <<"&", "<", ">", "\"", "'">>

\* which of the five character references starts at index i (0: none)
EntityAt(h, i) ==
    IF \E k \in 1..5 : StartsWithAt(h, i, EntityNames[k])
    THEN CHOOSE k \in 1..5 : StartsWithAt(h, i, EntityNames[k])
    ELSE 0

RECURSIVE DecodeFrom(_, _)
DecodeFrom(h, i) ==
    IF i > Len(h) THEN ""
    ELSE LET k == EntityAt(h, i)
         IN IF k > 0
            THEN EntityChars[k] \o DecodeFrom(h, i + Len(EntityNames[k]))
            ELSE Ch(h, i) \o DecodeFrom(h, i + 1)

DecodeEntities(h) == DecodeFrom(h, 1)

\* first index >= i whose character is in class (0: none)
IndexOfAny(h, i, class) ==
    LET hits == {k \in i..Len(h) : Ch(h, k) \in class}
    IN IF hits = {} THEN 0 ELSE CHOOSE k \in hits : \A j \in hits : k <= j

\* index of the > that closes the tag scanned from i (0: the input ends first);
\* a > inside a double-quoted attribute value does not close the tag
RECURSIVE TagClose(_, _)
TagClose(h, i) ==
    LET k == IndexOfAny(h, i, {">", "\""})
    IN IF k = 0 THEN 0
       ELSE IF Ch(h, k) = ">" THEN k
       ELSE LET q == IndexOfAny(h, k + 1, {"\""})
            IN IF q = 0 THEN 0 ELSE TagClose(h, q + 1)

\* first index in from..to where lit starts (0: none)
RECURSIVE FindIn(_, _, _, _)
FindIn(h, lit, from, to) ==
    IF from > to THEN 0
    ELSE IF StartsWithAt(h, from, lit) THEN from
    ELSE FindIn(h, lit, from + 1, to)

\* index of the " that ends the attribute value starting at i
QuoteEnd(h, i) ==
    LET q == IndexOfAny(h, i, {"\""})
    IN IF q = 0 THEN Len(h) + 1 ELSE q

\* the data-emote-url attribute of the tag spanning from..to, as a dataset
EmoteDataset(h, from, to) ==
    LET lit == " data-emote-url=\""
        k   == FindIn(h, lit, from, to)
    IN IF k = 0 THEN {}
       ELSE LET v == k + Len(lit)
            IN {DecodeEntities(SubSeq(h, v, QuoteEnd(h, v) - 1))}

FlushText(txt) == IF txt = "" THEN <<>> ELSE <<TextNode(txt)>>

TagNameOf(name) ==
    IF name = "br" THEN "BR"
    ELSE IF name = "img" THEN "IMG"
    ELSE IF name = "div" THEN "DIV"
    ELSE IF name = "p" THEN "P"
    ELSE "SPAN"

RECURSIVE ParseFrom(_, _, _)
ParseFrom(h, i, txt) ==
    IF i > Len(h) THEN FlushText(txt)
    ELSE IF Ch(h, i) = "<" /\ i < Len(h) /\ Ch(h, i + 1) \in Alpha
    THEN LET nameEnd == RunEnd(h, i + 1, AlphaNum)
             tag     == TagNameOf(SubSeq(h, i + 1, nameEnd - 1))
             close   == TagClose(h, nameEnd)
         IN IF close = 0 THEN FlushText(txt)
            ELSE IF tag = "BR"
            THEN FlushText(txt) \o <<Element("BR", {}, <<>>)>>
                     \o ParseFrom(h, close + 1, "")
            ELSE IF tag = "IMG"
            THEN FlushText(txt)
                     \o <<Element("IMG", EmoteDataset(h, nameEnd, close), <<>>)>>
                     \o ParseFrom(h, close + 1, "")
            ELSE FlushText(txt)
                     \o <<Element(tag, {}, ParseFrom(h, close + 1, ""))>>
    ELSE LET k == EntityAt(h, i)
         IN IF k > 0
            THEN ParseFrom(h, i + Len(EntityNames[k]), txt \o EntityChars[k])
            ELSE ParseFrom(h, i + 1, txt \o Ch(h, i))

ParseHtml(html) == ParseFrom(html, 1, "")

----------------------------------------------------------------------------
(* serializeEditorContent *)

RECURSIVE serializeEditorContent(_)
RECURSIVE SerializeChildren(_)

\* a serializer that gives '' for every element it has no rule for
serializeEditorContentOtherEmpty(node) ==
    IF node.nodeType = "TEXT_NODE" THEN node.data
    ELSE IF node.nodeType # "ELEMENT_NODE" THEN ""
    ELSE IF node.tagName = "IMG"
    THEN (IF node.dataset = {} THEN "" ELSE CHOOSE u \in node.dataset : TRUE)
    ELSE IF node.tagName = "BR" THEN "\n"
    ELSE IF node.tagName = "DIV" \/ node.tagName = "P"
    THEN SerializeChildren(node.childNodes) \o "\n"
    ELSE ""

\* a serializer that adds the newline of a DIV or P only when it has children
serializeEditorContentEmptyBlock(node) ==
    IF node.nodeType = "TEXT_NODE" THEN node.data
    ELSE IF node.nodeType # "ELEMENT_NODE" THEN ""
    ELSE IF node.tagName = "IMG"
    THEN (IF node.dataset = {} THEN "" ELSE CHOOSE u \in node.dataset : TRUE)
    ELSE IF node.tagName = "BR" THEN "\n"
    ELSE IF (node.tagName = "DIV" \/ node.tagName = "P") /\ node.childNodes # <<>>
    THEN SerializeChildren(node.childNodes) \o "\n"
    ELSE SerializeChildren(node.childNodes)

\* childNodes.forEach((child) => { text += serializeEditorContent(child) })
SerializeChildren(nodes) ==
    IF nodes = <<>> THEN ""
    ELSE serializeEditorContent(Head(nodes)) \o SerializeChildren(Tail(nodes))

serializeEditorContent(node) ==
    IF node.nodeType = "TEXT_NODE" THEN node.data
    ELSE IF node.nodeType # "ELEMENT_NODE" THEN ""
    ELSE IF node.tagName = "IMG"
    THEN (IF node.dataset = {} THEN "" ELSE CHOOSE u \in node.dataset : TRUE)
    ELSE IF node.tagName = "BR" THEN "\n"
    ELSE IF node.tagName = "DIV" \/ node.tagName = "P"
    THEN SerializeChildren(node.childNodes) \o "\n"
    ELSE SerializeChildren(node.childNodes)

\* nextValue.replace(/\n+$/, ''): the leftmost index from which only
\* newlines follow up to the end of the string
RECURSIVE NewlineTailStart(_, _)
NewlineTailStart(s, i) ==
    IF i > Len(s) THEN i
    ELSE IF RunEnd(s, i, {"\n"}) = Len(s) + 1 THEN i
    ELSE NewlineTailStart(s, i + 1)

\* updateContentFromEditor's value of nextValue before it is stored
\* updateContentFromEditor without its trailing-newline strip
EditorValueUnstripped(nodes) == SerializeChildren(nodes)

EditorValue(nodes) ==
    LET nextValue == SerializeChildren(nodes)
    IN IF EndsWith(nextValue, "\n")
       THEN SubSeq(nextValue, 1, NewlineTailStart(nextValue, 1) - 1)
       ELSE nextValue

----------------------------------------------------------------------------
(* String helpers of the component *)

\* String.prototype.includes
Includes(s, sub) == \E i \in 1..(Len(s) + 1) : StartsWithAt(s, i, sub)

Whitespace == {" ", "\n", "\t", "\r"}

\* String.prototype.trim
Trim(s) ==
    LET from == RunEnd(s, 1, Whitespace)
        keep == {k \in from..Len(s) : Ch(s, k) \notin Whitespace}
    IN IF keep = {} THEN ""
       ELSE SubSeq(s, from, CHOOSE k \in keep : \A j \in keep : j <= k)

UpperCase == "ABCDEFGHIJKLMNOPQRSTUVWXYZ"

LowerCase == "abcdefghijklmnopqrstuvwxyz"

LowerOf(c) ==
    IF \E k \in 1..26 : Ch(UpperCase, k) = c
    THEN Ch(LowerCase, CHOOSE k \in 1..26 : Ch(UpperCase, k) = c)
    ELSE c

\* String.prototype.toLowerCase
RECURSIVE ToLowerCase(_)
ToLowerCase(s) ==
    IF s = "" THEN "" ELSE LowerOf(Ch(s, 1)) \o ToLowerCase(SubSeq(s, 2, Len(s)))

----------------------------------------------------------------------------
(* External collaborators *)

\* @/utils/kaspaAddressUtils detectMentionsInText: every @ followed by a
\* non-empty run of letters and digits is a candidate
RECURSIVE DetectFrom(_, _)
DetectFrom(text, i) ==
    IF i > Len(text) THEN <<>>
    ELSE IF Ch(text, i) = "@" /\ RunEnd(text, i + 1, AlphaNum) > i + 1
    THEN <<[pubkey |-> SubSeq(text, i + 1, RunEnd(text, i + 1, AlphaNum) - 1)]>>
             \o DetectFrom(text, RunEnd(text, i + 1, AlphaNum))
    ELSE DetectFrom(text, i + 1)

detectMentionsInText(text) == DetectFrom(text, 1)

\* what validateAndReturnPublicKey resolves with for a candidate: nothing
\* (a rejected candidate) or the verified key
NoKey == ""

RejectedCandidates == {"b"}

ValidatorResults(candidate) ==
    IF candidate \in RejectedCandidates THEN {NoKey} ELSE {"pk" \o candidate}

\* @/data/emoji-data.json, as category -> entries {n: names, u: code points
\* in hexadecimal, joined by '-'}
emojiData ==
    << << [n |-> <<"smile">>, u |-> "23"],
          [n |-> <<"sad", "Frown">>, u |-> "25-21"] >>,
       << [n |-> <<"star">>, u |-> "2a"],
          [n |-> <<>>, u |-> "21"] >> >>

----------------------------------------------------------------------------
(* emojiIndex and emojiSuggestions *)

RECURSIVE Join(_, _)
Join(names, sep) ==
    IF names = <<>> THEN ""
    ELSE IF Len(names) = 1 THEN names[1]
    ELSE names[1] \o sep \o Join(Tail(names), sep)

RECURSIVE FlatMap(_, _)
FlatMap(F(_), seq) ==
    IF seq = <<>> THEN <<>> ELSE F(Head(seq)) \o FlatMap(F, Tail(seq))

\* names.find((name) => name.includes(' ')) || names[0]
pickPrimaryName(names) ==
    IF names = <<>> THEN ""
    ELSE LET hits == {k \in 1..Len(names) : Includes(names[k], " ")}
         IN IF hits = {} THEN names[1]
            ELSE names[CHOOSE k \in hits : \A j \in hits : k <= j]

HexDigits == <<"0", "1", "2", "3", "4", "5", "6", "7", "8", "9",
               "a", "b", "c", "d", "e", "f">>

HexValue(c) == (CHOOSE k \in 1..16 : HexDigits[k] = c) - 1

\* parseInt(part, 16)
RECURSIVE ParseHex(_, _)
ParseHex(part, acc) ==
    IF part = "" THEN acc
    ELSE ParseHex(SubSeq(part, 2, Len(part)), acc * 16 + HexValue(Ch(part, 1)))

\* String.fromCodePoint for the code points 33..47
CodePointChars ==
    <<"!", "\"", "#", "$", "%", "&", "'", "(", ")", "*", "+", ",", "-", ".", "/">>

fromCodePoint(codePoint) == CodePointChars[codePoint - 32]

\* unicode.split('-').map(part => parseInt(part, 16)), String.fromCodePoint(...)
RECURSIVE toEmoji(_)
toEmoji(unicode) ==
    LET dash == IndexOfAny(unicode, 1, {"-"})
    IN IF dash = 0 THEN fromCodePoint(ParseHex(unicode, 0))
       ELSE fromCodePoint(ParseHex(SubSeq(unicode, 1, dash - 1), 0))
                \o toEmoji(SubSeq(unicode, dash + 1, Len(unicode)))

IndexEntry(entry) ==
    [emoji |-> toEmoji(entry.u), names |-> entry.n,
     primaryName |-> pickPrimaryName(entry.n),
     search |-> ToLowerCase(Join(entry.n, " "))]

HasNames(entry) == entry.u # "" /\ Len(entry.n) > 0

CategoryEntries(category) ==
    LET kept == SelectSeq(category, HasNames)
    IN [k \in 1..Len(kept) |-> IndexEntry(kept[k])]

emojiIndex == FlatMap(CategoryEntries, emojiData)

MaxSuggestions == 32

emojiSuggestions(query) ==
    LET trimmed == ToLowerCase(Trim(query))
        Matches(entry) == Includes(entry.search, trimmed)
        found == SelectSeq(emojiIndex, Matches)
    IN IF trimmed = "" THEN <<>>
       ELSE SubSeq(found, 1, IF Len(found) < MaxSuggestions THEN Len(found)
                                                            ELSE MaxSuggestions)

----------------------------------------------------------------------------
(* Component state *)

NoSelection == [kind |-> "none", node |-> 0, start |-> 0, end |-> 0]

\* a range inside the text node that is child number node of the editor
TextRange(node, start, end) ==
    [kind |-> "text", node |-> node, start |-> start, end |-> end]

\* a collapsed caret in the editor element, after its first offset children
EditorCaret(offset) ==
    [kind |-> "editor", node |-> 0, start |-> offset, end |-> offset]

\* emojiRangeRef.current: null, or a text node (child number node of the
\* editor, 0 once the node is no longer in the editor) with two offsets
NullRange == [set |-> FALSE, node |-> 0, start |-> 0, end |-> 0]

\* a range that starts behind the colon
RangeInfoBehindColon(node, start, end) ==
    [set |-> TRUE, node |-> node, start |-> start + 1, end |-> end]

RangeInfo(node, start, end) ==
    [set |-> TRUE, node |-> node, start |-> start, end |-> end]

Snapshot ==
    [content |-> content, isSubmitting |-> isSubmitting,
     validatedMentions |-> validatedMentions, emojiQuery |-> emojiQuery,
     emojiActiveIndex |-> emojiActiveIndex]

CompInit ==
    /\ content = ""
    /\ isSubmitting = FALSE
    /\ validatedMentions = <<>>
    /\ emojiQuery = ""
    /\ emojiActiveIndex = 0
    /\ view = [content |-> "", isSubmitting |-> FALSE, validatedMentions |-> <<>>,
               emojiQuery |-> "", emojiActiveIndex |-> 0]
    /\ effects = {}
    /\ editor = <<>>
    /\ selection = NoSelection
    /\ lastContentRef = ""
    /\ emojiRangeRef = NullRange
    /\ privateKey \in {"", "sk"}
    /\ sends = <<>>
    /\ passes = <<>>
    /\ inserts = 0
    /\ calls = <<>>

----------------------------------------------------------------------------
(* updateContentFromEditor, updateEmojiQueryFromSelection *)

\* [\w+-]
QueryChar == AlphaNum \cup {"_", "+", "-"}

\* a match that takes a colon wherever it stands
EmojiMatchColonAnywhere(uptoCursor) ==
    LET tails == {i \in 1..(Len(uptoCursor) + 1) :
                     \A j \in i..Len(uptoCursor) : Ch(uptoCursor, j) \in QueryChar}
        tail  == CHOOSE i \in tails : \A j \in tails : i <= j
        colon == tail - 1
    IN IF colon >= 1 /\ Ch(uptoCursor, colon) = ":" THEN colon ELSE 0

\* /(?:^|\s):([\w+-]*)$/.exec(uptoCursor): the index of the colon of the
\* match (0: no match).  The captured run has to reach the end, so the colon
\* is the character before the longest suffix made of [\w+-] only.
EmojiMatchColon(uptoCursor) ==
    LET tails == {i \in 1..(Len(uptoCursor) + 1) :
                     \A j \in i..Len(uptoCursor) : Ch(uptoCursor, j) \in QueryChar}
        tail  == CHOOSE i \in tails : \A j \in tails : i <= j
        colon == tail - 1
    IN IF /\ colon >= 1
          /\ Ch(uptoCursor, colon) = ":"
          /\ (colon = 1 \/ Ch(uptoCursor, colon - 1) \in Whitespace)
       THEN colon
       ELSE 0

\* the values updateEmojiQueryFromSelection stores: [query, range]
EmojiQueryFromSelection(tree, sel) ==
    IF sel.kind # "text"
    THEN [query |-> "", range |-> NullRange]
    ELSE LET text       == tree[sel.node].data
             uptoCursor == SubSeq(text, 1, sel.end)
             colon      == EmojiMatchColon(uptoCursor)
             query      == SubSeq(uptoCursor, colon + 1, Len(uptoCursor))
         IN IF colon = 0 \/ query = ""
            THEN [query |-> "", range |-> NullRange]
            ELSE [query |-> query,
                  range |-> RangeInfo(sel.node, sel.end - Len(query) - 1, sel.end)]

----------------------------------------------------------------------------
(* Rendering and effects *)

MaxPasses == 2

Call(fn, arg) == [fn |-> fn, arg |-> arg]

\* the effects a render schedules: those with a changed dependency
ChangedEffects ==
    (IF emojiQuery # view.emojiQuery THEN {"activeIndex"} ELSE {})
    \cup (IF content # view.content THEN {"mentions", "rerender"} ELSE {})

\* React commits a render with the current state; the scheduled effects run
\* later (RunEffects), and before the next render
Render ==
    /\ effects = {}
    /\ view # Snapshot
    /\ view' = Snapshot
    /\ effects' = ChangedEffects
    /\ calls' = <<>>
    /\ UNCHANGED <<stateVars, domVars, privateKey, inserts, sends, passes, fnVars>>

\* useKaspaTransactions() returns another networkId: a render whose mention
\* effect runs again, whatever content is
NetworkChange ==
    /\ effects = {}
    /\ view' = Snapshot
    /\ effects' = ChangedEffects \cup {"mentions"}
    /\ calls' = <<>>
    /\ UNCHANGED <<stateVars, domVars, privateKey, inserts, sends, passes, fnVars>>

NewPass(text, mentions) ==
    [text |-> text, mentions |-> mentions, next |-> 1, validated |-> <<>>,
     returned |-> <<>>, overlapped |-> passes # <<>>]

MarkOverlapped(ps) == [k \in 1..Len(ps) |-> [ps[k] EXCEPT !.overlapped = TRUE]]

\* a gate that lets every text through
MentionsGateOpen(text) == TRUE

\* content.includes('@')
MentionsGate(text) == Includes(text, "@")

\* updateEditorFromContent(value): editor.innerHTML = renderContentHtml(value)
updateEditorFromContent(value) == ParseHtml(renderContentHtml(value))

\* the effects of the last render, in the order the component declares them
RunEffects ==
    /\ effects # {}
    /\ LET runMentions == "mentions" \in effects
           validating  == runMentions /\ MentionsGate(view.content)
           mentions    == detectMentionsInText(view.content)
           rebuild     == "rerender" \in effects /\ view.content # lastContentRef
       IN /\ validating /\ mentions # <<>> => Len(passes) < MaxPasses
          \* useEffect(() => setEmojiActiveIndex(0), [emojiQuery])
          /\ emojiActiveIndex' =
                 IF "activeIndex" \in effects THEN 0 ELSE emojiActiveIndex
          \* mention effect: validateMentions() up to its first await, or the reset
          /\ passes' =
                 IF validating /\ mentions # <<>>
                 THEN Append(MarkOverlapped(passes), NewPass(view.content, mentions))
                 ELSE passes
          /\ validatedMentions' =
                 IF runMentions /\ (~validating \/ mentions = <<>>)
                 THEN <<>> ELSE validatedMentions
          /\ calls' =
                 (IF validating
                  THEN <<Call("detectMentionsInText", view.content)>> ELSE <<>>)
                 \o (IF validating /\ mentions # <<>>
                     THEN <<Call("validateAndReturnPublicKey", mentions[1].pubkey)>>
                     ELSE <<>>)
          \* re-render effect
          /\ editor' =
                 IF rebuild THEN updateEditorFromContent(view.content) ELSE editor
          /\ lastContentRef' = IF rebuild THEN view.content ELSE lastContentRef
          /\ selection' =
                 IF rebuild /\ selection.kind # "none" THEN EditorCaret(0) ELSE selection
          /\ emojiRangeRef' =
                 IF rebuild /\ emojiRangeRef.set
                 THEN [emojiRangeRef EXCEPT !.node = 0] ELSE emojiRangeRef
    /\ effects' = {}
    /\ UNCHANGED <<content, isSubmitting, emojiQuery, view, privateKey, inserts, sends, fnVars>>

RemoveAt(seq, i) == SubSeq(seq, 1, i - 1) \o SubSeq(seq, i + 1, Len(seq))

\* a push that keeps rejected candidates too
PushValidatedAlways(validated, validPubkey) ==
    Append(validated, [pubkey |-> validPubkey])

\* if (validPubkey) validated.push({ pubkey: validPubkey })
PushValidated(validated, validPubkey) ==
    IF validPubkey # NoKey
    THEN Append(validated, [pubkey |-> validPubkey])
    ELSE validated

\* a validateMentions that drops its result when content has changed since
\* the pass started
ValidatorReturnsIfCurrent(i, validPubkey) ==
    /\ i \in 1..Len(passes)
    /\ LET p         == passes[i]
           mention   == p.mentions[p.next]
           validated == PushValidated(p.validated, validPubkey)
           returned  == Append(p.returned, [pubkey |-> mention.pubkey,
                                            result |-> validPubkey])
       IN /\ validPubkey \in ValidatorResults(mention.pubkey)
          /\ IF p.next < Len(p.mentions)
             THEN /\ passes' = [passes EXCEPT ![i] =
                                   [p EXCEPT !.next = p.next + 1,
                                             !.validated = validated,
                                             !.returned = returned]]
                  /\ calls' = <<Call("validateAndReturnPublicKey",
                                     p.mentions[p.next + 1].pubkey)>>
                  /\ UNCHANGED validatedMentions
             ELSE /\ passes' = RemoveAt(passes, i)
                  /\ calls' = <<>>
                  /\ validatedMentions' =
                         IF p.text = content THEN validated ELSE validatedMentions
    /\ UNCHANGED <<content, isSubmitting, emojiQuery, emojiActiveIndex, view, effects,
                   domVars, privateKey, inserts, sends, fnVars>>

\* validateAndReturnPublicKey resolves for pass i: the loop body of
\* validateMentions, then the next call or setValidatedMentions
ValidatorReturns(i, validPubkey) ==
    /\ i \in 1..Len(passes)
    /\ LET p         == passes[i]
           mention   == p.mentions[p.next]
           validated == PushValidated(p.validated, validPubkey)
           returned  == Append(p.returned, [pubkey |-> mention.pubkey,
                                            result |-> validPubkey])
       IN /\ validPubkey \in ValidatorResults(mention.pubkey)
          /\ IF p.next < Len(p.mentions)
             THEN /\ passes' = [passes EXCEPT ![i] =
                                   [p EXCEPT !.next = p.next + 1,
                                             !.validated = validated,
                                             !.returned = returned]]
                  /\ calls' = <<Call("validateAndReturnPublicKey",
                                     p.mentions[p.next + 1].pubkey)>>
                  /\ UNCHANGED validatedMentions
             ELSE /\ passes' = RemoveAt(passes, i)
                  /\ calls' = <<>>
                  /\ validatedMentions' = validated
    /\ UNCHANGED <<content, isSubmitting, emojiQuery, emojiActiveIndex, view, effects,
                   domVars, privateKey, inserts, sends, fnVars>>

----------------------------------------------------------------------------
(* User edits of the editable surface *)

Div(kids) == Element("DIV", {}, kids)

Br == Element("BR", {}, <<>>)

Img(url) == Element("IMG", {url}, <<>>)

\* a user edit (typing, Enter, paste, delete): the tree it leaves in the
\* editor and where it leaves the caret
Edit(tree, caret) == [tree |-> tree, caret |-> caret]

EditInputs ==
    { Edit(<<>>, EditorCaret(0)),
      Edit(<<Img(UrlPng), TextNode("x :a y"), Div(<<Br>>)>>, TextRange(2, 4, 4)) }

SubmitInputs ==
    { Edit(<<>>, EditorCaret(0)),
      Edit(<<TextNode(" ")>>, TextRange(1, 1, 1)),
      Edit(<<TextNode("a")>>, TextRange(1, 1, 1)),
      Edit(<<TextNode("@a @b @c")>>, TextRange(1, 8, 8)) }

MentionInputs ==
    { Edit(<<>>, EditorCaret(0)),
      Edit(<<TextNode("a")>>, TextRange(1, 1, 1)),
      Edit(<<TextNode("@")>>, TextRange(1, 1, 1)),
      Edit(<<TextNode("@c")>>, TextRange(1, 2, 2)),
      Edit(<<TextNode("@a @b @c")>>, TextRange(1, 8, 8)) }

\* selections the user can make in a tree by a click or a key: none (or
\* outside the editor), a caret at the end of the editor
Selections(tree) == {NoSelection, EditorCaret(Len(tree))}

\* onInput: updateContentFromEditor(); updateEmojiQueryFromSelection()
InputEvent(tree, caret) ==
    /\ editor' = tree
    /\ selection' = caret
    /\ lastContentRef' = EditorValue(tree)
    /\ content' = EditorValue(tree)
    /\ emojiQuery' = EmojiQueryFromSelection(tree, caret).query
    /\ emojiRangeRef' = EmojiQueryFromSelection(tree, caret).range
    /\ calls' = <<>>
    /\ UNCHANGED <<isSubmitting, validatedMentions, emojiActiveIndex, view, effects,
                   privateKey, inserts, sends, passes, fnVars>>

\* onKeyUp / onClick: updateEmojiQueryFromSelection()
SelectionEvent(sel) ==
    /\ sel \in Selections(editor)
    /\ selection' = sel
    /\ emojiQuery' = EmojiQueryFromSelection(editor, sel).query
    /\ emojiRangeRef' = EmojiQueryFromSelection(editor, sel).range
    /\ calls' = <<>>
    /\ UNCHANGED <<content, isSubmitting, validatedMentions, emojiActiveIndex, view,
                   effects, editor, lastContentRef, privateKey, inserts, sends, passes, fnVars>>

----------------------------------------------------------------------------
(* Caret-relative insertion *)

\* the user makes at most MaxInserts picker and suggestion insertions
MaxInserts == 1

\* child number index after count nodes were inserted behind the first
\* `before` children
Shifted(index, before, count) == IF index > before THEN index + count ELSE index

\* emojiRangeRef after an insertion: its text node moves with the children
ShiftRange(ref, before, count) ==
    IF ref.set /\ ref.node > 0
    THEN [ref EXCEPT !.node = Shifted(ref.node, before, count)]
    ELSE ref

InsertAt(tree, offset, nodes) ==
    SubSeq(tree, 1, offset) \o nodes \o SubSeq(tree, offset + 1, Len(tree))

\* range.deleteContents() then range.insertNode(node) for a range inside text
\* child sel.node: the child keeps the text before the range, the text after
\* it goes to a new text node (splitText), nodes go in between
SplitInsert(tree, sel, nodes) ==
    LET d == tree[sel.node].data
    IN SubSeq(tree, 1, sel.node - 1)
           \o <<TextNode(SubSeq(d, 1, sel.start))>>
           \o nodes
           \o <<TextNode(SubSeq(d, sel.end + 1, Len(d)))>>
           \o SubSeq(tree, sel.node + 1, Len(tree))

\* an insertion that puts the text in front of the editor's children
TreeAfterInsertTextInFront(tree, sel, value) == <<TextNode(value)>> \o tree

\* the editor after insertTextAtCursor(value)
TreeAfterInsertText(tree, sel, value) ==
    IF sel.kind = "none" THEN Append(tree, TextNode(value))
    ELSE IF sel.kind = "editor" THEN InsertAt(tree, sel.start, <<TextNode(value)>>)
    ELSE SplitInsert(tree, sel, <<TextNode(value)>>)

\* range.collapse(false): the caret after the inserted node
SelectionAfterInsertText(sel) ==
    IF sel.kind = "none" THEN sel
    ELSE IF sel.kind = "editor" THEN EditorCaret(sel.start + 1)
    ELSE EditorCaret(sel.node + 1)

RangeAfterInsertText(ref, sel) ==
    IF sel.kind = "none" THEN ref
    ELSE IF sel.kind = "editor" THEN ShiftRange(ref, sel.start, 1)
    ELSE ShiftRange(ref, sel.node, 2)

\* insertTextAtCursor(value), editorRef.current being set
insertTextAtCursor(value) ==
    /\ inserts < MaxInserts
    /\ inserts' = inserts + 1
    /\ editor' = TreeAfterInsertText(editor, selection, value)
    /\ selection' = SelectionAfterInsertText(selection)
    /\ lastContentRef' = EditorValue(editor')
    /\ content' = EditorValue(editor')

\* EmojiPickerButton onEmojiSelect
handleEmojiSelect(emoji) ==
    /\ insertTextAtCursor(emoji)
    /\ emojiRangeRef' = RangeAfterInsertText(emojiRangeRef, selection)
    /\ calls' = <<>>
    /\ UNCHANGED <<isSubmitting, validatedMentions, emojiQuery, emojiActiveIndex, view,
                   effects, privateKey, sends, passes, fnVars>>

EmoteImg(url) == Element("IMG", {url}, <<>>)

\* the editor after insertEmoteAtCursor(url): insertNode(spacer), then
\* insertNode(img) at the range start, which splits the text before it again
TreeAfterInsertEmote(tree, sel, url) ==
    IF sel.kind = "none" THEN tree \o <<EmoteImg(url), TextNode(" ")>>
    ELSE IF sel.kind = "editor"
    THEN InsertAt(tree, sel.start, <<EmoteImg(url), TextNode(" ")>>)
    ELSE SplitInsert(tree, sel, <<EmoteImg(url), TextNode(""), TextNode(" ")>>)

\* range.setStartAfter(spacer); range.setEndAfter(spacer)
SelectionAfterInsertEmote(sel) ==
    IF sel.kind = "none" THEN sel
    ELSE IF sel.kind = "editor" THEN EditorCaret(sel.start + 2)
    ELSE EditorCaret(sel.node + 3)

RangeAfterInsertEmote(ref, sel) ==
    IF sel.kind = "none" THEN ref
    ELSE IF sel.kind = "editor" THEN ShiftRange(ref, sel.start, 2)
    ELSE ShiftRange(ref, sel.node, 4)

\* SevenTVPickerButton onEmoteSelect: insertEmoteAtCursor(url)
handleSevenTVSelect(url) ==
    /\ inserts < MaxInserts
    /\ inserts' = inserts + 1
    /\ editor' = TreeAfterInsertEmote(editor, selection, url)
    /\ selection' = SelectionAfterInsertEmote(selection)
    /\ emojiRangeRef' = RangeAfterInsertEmote(emojiRangeRef, selection)
    /\ lastContentRef' = EditorValue(editor')
    /\ content' = EditorValue(editor')
    /\ calls' = <<>>
    /\ UNCHANGED <<isSubmitting, validatedMentions, emojiQuery, emojiActiveIndex, view,
                   effects, privateKey, sends, passes, fnVars>>

----------------------------------------------------------------------------
(* Emoji suggestions *)

\* can range.setStart / setEnd / insertNode work on emojiRangeRef.current:
\* the node is still a child of the editor and holds both offsets
RangeUsable(ref) ==
    /\ ref.node >= 1
    /\ ref.node <= Len(editor)
    /\ editor[ref.node].nodeType = "TEXT_NODE"
    /\ ref.start <= Len(editor[ref.node].data)
    /\ ref.end <= Len(editor[ref.node].data)

\* insertEmojiSuggestion(emoji)
insertEmojiSuggestion(emoji) ==
    IF ~emojiRangeRef.set
    THEN \* insertTextAtCursor(`${emoji} `); setEmojiQuery(''); ref = null
         /\ insertTextAtCursor(emoji \o " ")
         /\ emojiQuery' = ""
         /\ emojiRangeRef' = NullRange
    ELSE IF ~RangeUsable(emojiRangeRef)
    THEN \* the DOM range calls throw (IndexSizeError, HierarchyRequestError)
         \* before anything in the editor or the state is changed
         UNCHANGED <<editor, selection, lastContentRef, content, emojiQuery,
                     emojiRangeRef, inserts>>
    ELSE LET asRange == TextRange(emojiRangeRef.node, emojiRangeRef.start,
                                  emojiRangeRef.end)
             tree    == SplitInsert(editor, asRange, <<TextNode(emoji \o " ")>>)
         IN /\ inserts < MaxInserts
            /\ inserts' = inserts + 1
            /\ editor' = tree
            /\ selection' = TextRange(emojiRangeRef.node + 1, Len(emoji) + 1,
                                      Len(emoji) + 1)
            /\ lastContentRef' = EditorValue(tree)
            /\ content' = EditorValue(tree)
            /\ emojiQuery' = ""
            /\ emojiRangeRef' = NullRange

\* onClick of a suggestion button of the rendered list
SuggestionClick(k) ==
    /\ k \in 1..Len(emojiSuggestions(view.emojiQuery))
    /\ insertEmojiSuggestion(emojiSuggestions(view.emojiQuery)[k].emoji)
    /\ calls' = <<>>
    /\ UNCHANGED <<isSubmitting, validatedMentions, emojiActiveIndex, view, effects,
                   privateKey, sends, passes, fnVars>>

\* a clamp that lets the index pass the bound
MinUnclamped(a, b) == a

Min(a, b) == IF a < b THEN a ELSE b

Max(a, b) == IF a > b THEN a ELSE b

Keys == {"ArrowDown", "ArrowUp", "Enter", "Tab", "Escape", "a"}

\* onKeyDown
KeyDown(key) ==
    /\ key \in Keys
    /\ LET suggestions == emojiSuggestions(view.emojiQuery)
       IN IF suggestions = <<>> \/ key = "a"
          THEN UNCHANGED <<editor, selection, lastContentRef, content, emojiQuery,
                           emojiRangeRef, emojiActiveIndex, inserts>>
          ELSE IF key = "ArrowDown"
          THEN /\ emojiActiveIndex' = Min(emojiActiveIndex + 1, Len(suggestions) - 1)
               /\ UNCHANGED <<editor, selection, lastContentRef, content, emojiQuery,
                              emojiRangeRef, inserts>>
          ELSE IF key = "ArrowUp"
          THEN /\ emojiActiveIndex' = Max(emojiActiveIndex - 1, 0)
               /\ UNCHANGED <<editor, selection, lastContentRef, content, emojiQuery,
                              emojiRangeRef, inserts>>
          ELSE IF key = "Escape"
          THEN /\ emojiQuery' = ""
               /\ emojiRangeRef' = NullRange
               /\ UNCHANGED <<editor, selection, lastContentRef, content,
                              emojiActiveIndex, inserts>>
          ELSE \* Enter, Tab: const pick = emojiSuggestions[emojiActiveIndex]
               /\ UNCHANGED emojiActiveIndex
               /\ IF view.emojiActiveIndex + 1 \in 1..Len(suggestions)
                  THEN insertEmojiSuggestion(
                           suggestions[view.emojiActiveIndex + 1].emoji)
                  ELSE UNCHANGED <<editor, selection, lastContentRef, content,
                                   emojiQuery, emojiRangeRef, inserts>>
    /\ calls' = <<>>
    /\ UNCHANGED <<isSubmitting, validatedMentions, view, effects, privateKey, sends,
                   passes, fnVars>>

----------------------------------------------------------------------------
(* Submission *)

MaxSends == 2

\* validatedMentions.map(m => m.pubkey)
Pubkeys(mentions) == [k \in 1..Len(mentions) |-> mentions[k].pubkey]

\* a handlePost whose guard does not test privateKey
handlePostWithoutKeyTest ==
    IF Trim(view.content) # "" /\ ~view.isSubmitting
    THEN /\ Len(sends) < MaxSends
         /\ isSubmitting' = TRUE
         /\ sends' = Append(sends, [userMessage |-> view.content,
                                    mentionedPubkeys |-> Pubkeys(view.validatedMentions)])
         /\ calls' = <<Call("sendTransaction",
                            [privateKey |-> privateKey, userMessage |-> view.content,
                             type |-> "post",
                             mentionedPubkeys |-> Pubkeys(view.validatedMentions)])>>
         /\ UNCHANGED <<content, validatedMentions, emojiQuery, emojiActiveIndex, view,
                        effects, domVars, privateKey, inserts, passes, fnVars>>
    ELSE /\ calls' = <<>>
         /\ UNCHANGED <<stateVars, view, effects, domVars, privateKey, inserts, sends, passes,
                        fnVars>>

\* handlePost up to its await: the render's content, privateKey and
\* isSubmitting decide; the call waits in sends with what its closure holds
handlePost ==
    IF Trim(view.content) # "" /\ privateKey # "" /\ ~view.isSubmitting
    THEN /\ Len(sends) < MaxSends
         /\ isSubmitting' = TRUE
         /\ sends' = Append(sends, [userMessage |-> view.content,
                                    mentionedPubkeys |-> Pubkeys(view.validatedMentions)])
         /\ calls' = <<Call("sendTransaction",
                            [privateKey |-> privateKey, userMessage |-> view.content,
                             type |-> "post",
                             mentionedPubkeys |-> Pubkeys(view.validatedMentions)])>>
         /\ UNCHANGED <<content, validatedMentions, emojiQuery, emojiActiveIndex, view,
                        effects, domVars, privateKey, inserts, passes, fnVars>>
    ELSE /\ calls' = <<>>
         /\ UNCHANGED <<stateVars, view, effects, domVars, privateKey, inserts, sends, passes,
                        fnVars>>

\* a handlePost that hands onPost the latest content instead of the one its
\* render captured
SendResolvesLatestContent(i, hideTransactionPopup) ==
    /\ i \in 1..Len(sends)
    /\ calls' = (IF hideTransactionPopup THEN <<>>
                 ELSE <<Call("toast.success", "Post transaction successful!")>>)
                \o <<Call("onPost", content)>>
    /\ content' = ""
    /\ isSubmitting' = FALSE
    /\ sends' = RemoveAt(sends, i)
    /\ UNCHANGED <<validatedMentions, emojiQuery, emojiActiveIndex, view, effects,
                   domVars, privateKey, inserts, passes, fnVars>>

\* sendTransaction resolves with a result for the i-th waiting call:
\* toast.success unless hideTransactionPopup, onPost(content), setContent(''),
\* and the finally block
SendResolves(i, hideTransactionPopup) ==
    /\ i \in 1..Len(sends)
    /\ calls' = (IF hideTransactionPopup THEN <<>>
                 ELSE <<Call("toast.success", "Post transaction successful!")>>)
                \o <<Call("onPost", sends[i].userMessage)>>
    /\ content' = ""
    /\ isSubmitting' = FALSE
    /\ sends' = RemoveAt(sends, i)
    /\ UNCHANGED <<validatedMentions, emojiQuery, emojiActiveIndex, view, effects,
                   domVars, privateKey, inserts, passes, fnVars>>

\* a handlePost without the `if (result)` test: an empty result is treated as
\* a success
SendResolvesEmptyAsSuccess(i) ==
    /\ i \in 1..Len(sends)
    /\ calls' = <<Call("onPost", sends[i].userMessage)>>
    /\ content' = ""
    /\ isSubmitting' = FALSE
    /\ sends' = RemoveAt(sends, i)
    /\ UNCHANGED <<validatedMentions, emojiQuery, emojiActiveIndex, view, effects,
                   domVars, privateKey, inserts, passes, fnVars>>

\* sendTransaction resolves with no result: only the finally block runs
SendResolvesEmpty(i) ==
    /\ i \in 1..Len(sends)
    /\ calls' = <<>>
    /\ isSubmitting' = FALSE
    /\ sends' = RemoveAt(sends, i)
    /\ UNCHANGED <<content, validatedMentions, emojiQuery, emojiActiveIndex, view,
                   effects, domVars, privateKey, inserts, passes, fnVars>>

\* a handlePost without its finally block: a throw leaves the flag set
SendThrowsNoFinally(i) ==
    /\ i \in 1..Len(sends)
    /\ calls' = <<Call("toast.error", "An error occurred when sending transaction")>>
    /\ sends' = RemoveAt(sends, i)
    /\ UNCHANGED <<content, isSubmitting, validatedMentions, emojiQuery,
                   emojiActiveIndex, view, effects, domVars, privateKey, inserts,
                   passes, fnVars>>

\* sendTransaction throws: the catch block, then the finally block
SendThrows(i) ==
    /\ i \in 1..Len(sends)
    /\ calls' = <<Call("toast.error", "An error occurred when sending transaction")>>
    /\ isSubmitting' = FALSE
    /\ sends' = RemoveAt(sends, i)
    /\ UNCHANGED <<content, validatedMentions, emojiQuery, emojiActiveIndex, view,
                   effects, domVars, privateKey, inserts, passes, fnVars>>

FnIdle ==
    /\ fnArg = ""
    /\ fnHtml = ""
    /\ fnTree = <<>>
    /\ fnOut = ""
    /\ fnStep = "idle"

----------------------------------------------------------------------------
(* The pure functions applied to bounded inputs *)

MaxPieces == 3

Pieces == {"a", "7", " ", "\n", "&", "<", ">", "\"", "'", "amp;", "lt;",
           UrlPng, UrlWebp}

RECURSIVE TextsOf(_)
TextsOf(n) ==
    IF n = 0 THEN {""}
    ELSE {p \o t : p \in Pieces, t \in TextsOf(n - 1)}

Texts == UNION {TextsOf(n) : n \in 0..MaxPieces}

FnInit ==
    /\ fnArg \in Texts
    /\ fnHtml = ""
    /\ fnTree = <<>>
    /\ fnOut = ""
    /\ fnStep = "arg"
    /\ CompInit
    /\ privateKey = "sk"

FnEscape ==
    /\ fnStep = "arg"
    /\ fnOut' = escapeHtml(fnArg)
    /\ fnStep' = "escaped"
    /\ UNCHANGED <<fnArg, fnHtml, fnTree>>
    /\ UNCHANGED compVars

FnRender ==
    /\ fnStep = "arg"
    /\ fnHtml' = renderContentHtml(fnArg)
    /\ fnStep' = "rendered"
    /\ UNCHANGED <<fnArg, fnTree, fnOut>>
    /\ UNCHANGED compVars

FnSetInnerHtml ==
    /\ fnStep = "rendered"
    /\ fnTree' = ParseHtml(fnHtml)
    /\ fnStep' = "parsed"
    /\ UNCHANGED <<fnArg, fnHtml, fnOut>>
    /\ UNCHANGED compVars

FnSerialize ==
    /\ fnStep = "parsed"
    /\ fnOut' = EditorValue(fnTree)
    /\ fnStep' = "serialized"
    /\ UNCHANGED <<fnArg, fnHtml, fnTree>>
    /\ UNCHANGED compVars

FnNext == FnEscape \/ FnRender \/ FnSetInnerHtml \/ FnSerialize

FnSpec == FnInit /\ [][FnNext]_vars

----------------------------------------------------------------------------
(* The component: every handler, with the inputs of all three environments *)

Init == CompInit /\ FnIdle

Glyphs == {"#"}

EmoteUrls == {UrlPng}

ValidatorStep ==
    \E i \in 1..Len(passes) :
        \E r \in ValidatorResults(passes[i].mentions[passes[i].next].pubkey) :
            ValidatorReturns(i, r)

SendSettles ==
    \/ \E i \in 1..Len(sends) : \E hide \in BOOLEAN : SendResolves(i, hide)
    \/ \E i \in 1..Len(sends) : SendResolvesEmpty(i)
    \/ \E i \in 1..Len(sends) : SendThrows(i)

Editing ==
    \/ \E sel \in Selections(editor) : SelectionEvent(sel)
    \/ \E key \in Keys : KeyDown(key)
    \/ \E k \in 1..MaxSuggestions : SuggestionClick(k)
    \/ \E emoji \in Glyphs : handleEmojiSelect(emoji)
    \/ \E url \in EmoteUrls : handleSevenTVSelect(url)

Next ==
    \/ Render
    \/ RunEffects
    \/ NetworkChange
    \/ ValidatorStep
    \/ \E e \in EditInputs \cup SubmitInputs \cup MentionInputs :
           InputEvent(e.tree, e.caret)
    \/ Editing
    \/ handlePost
    \/ SendSettles

Spec == Init /\ [][Next]_vars

----------------------------------------------------------------------------
(* Editing environment: the user edits, moves the caret, inserts emoji and  *)
(* emotes, commits suggestions and submits one post at a time; no text      *)
(* holds a mention.                                                          *)

EditInit == Init /\ privateKey = "sk"

EditNext ==
    \/ Render
    \/ RunEffects
    \/ \E e \in EditInputs : InputEvent(e.tree, e.caret)
    \/ Editing
    \/ Len(sends) = 0 /\ handlePost
    \/ SendSettles

EditSpec == EditInit /\ [][EditNext]_vars

----------------------------------------------------------------------------
(* Submission environment: the user types and submits, also twice before   *)
(* the component renders again; sends resolve, resolve empty or throw.      *)

SubmitNext ==
    \/ Render
    \/ RunEffects
    \/ ValidatorStep
    \/ \E e \in SubmitInputs : InputEvent(e.tree, e.caret)
    \/ handlePost
    \/ SendSettles

SubmitSpec == Init /\ [][SubmitNext]_vars

\* the same environment with texts that hold no mention, under the claim's
\* assumption that every sendTransaction call settles
SettleInputs ==
    { Edit(<<>>, EditorCaret(0)),
      Edit(<<TextNode(" ")>>, TextRange(1, 1, 1)),
      Edit(<<TextNode("a")>>, TextRange(1, 1, 1)),
      Edit(<<TextNode("b"), Br>>, TextRange(1, 1, 1)) }

SettleNext ==
    \/ Render
    \/ RunEffects
    \/ \E e \in SettleInputs : InputEvent(e.tree, e.caret)
    \/ handlePost
    \/ SendSettles

SubmitFairSpec ==
    /\ Init
    /\ [][SettleNext]_vars
    /\ WF_vars(SendSettles)

----------------------------------------------------------------------------
(* Mention environment: the user types texts with and without mentions,    *)
(* the network changes, the validator answers.                              *)

MentionInit == Init /\ privateKey = "sk"

MentionNext ==
    \/ Render
    \/ RunEffects
    \/ NetworkChange
    \/ ValidatorStep
    \/ \E e \in MentionInputs : InputEvent(e.tree, e.caret)

MentionSpec == MentionInit /\ [][MentionNext]_vars

----------------------------------------------------------------------------
(* Properties of the pure functions (checked under FnSpec) *)

RECURSIVE TrimTrailingNewlines(_)
TrimTrailingNewlines(s) ==
    IF EndsWith(s, "\n") THEN TrimTrailingNewlines(SubSeq(s, 1, Len(s) - 1)) ELSE s

\* C10: escapeHtml's result holds none of the raw characters < > " ', every &
\* in it starts one of the five entities, and decoding the entities in one
\* pass gives the argument back.
C10_EscapeHtmlReversible ==
    fnStep = "escaped" =>
        /\ \A i \in 1..Len(fnOut) : Ch(fnOut, i) \notin {"<", ">", "\"", "'"}
        /\ \A i \in 1..Len(fnOut) : Ch(fnOut, i) = "&" => EntityAt(fnOut, i) > 0
        /\ DecodeEntities(fnOut) = fnArg

\* an argument that already looks like an entity, followed by a reserved character
C10_Witness ==
    /\ fnStep = "escaped"
    /\ fnArg = "&lt;<"
    /\ fnOut = "&amp;lt;&lt;"

\* C2: serializing the tree built from renderContentHtml(text) and stripping
\* the trailing newlines gives text without its trailing newlines.
C2_RoundTrip ==
    fnStep = "serialized" => fnOut = TrimTrailingNewlines(fnArg)

\* a reserved character, an emote and a trailing newline in one text
C2_Witness ==
    /\ fnStep = "serialized"
    /\ fnArg = "<" \o UrlPng \o "\n"
    /\ Len(fnTree) = 3
    /\ fnTree[2].tagName = "IMG"
    /\ fnOut = "<" \o UrlPng

----------------------------------------------------------------------------
(* Properties of submission (checked under SubmitSpec and SubmitFairSpec) *)

HasCall(cs, fn) == \E k \in 1..Len(cs) : cs[k].fn = fn

\* the sendTransaction call of some handlePost settles without a result
SendFails == \E i \in 1..Len(sends) : SendResolvesEmpty(i) \/ SendThrows(i)

\* C1: at most one sendTransaction call is outstanding at any time, also when
\* handlePost runs a second time before the component has rendered again.
C1_OneOutstandingSend == Len(sends) <= 1

\* C3: the step in which a send settles (result, no result or throw) sets
\* isSubmitting to false, and when every send settles isSubmitting always
\* becomes false again.
C3_FlagCleared ==
    /\ [][SendSettles => isSubmitting' = FALSE]_vars
    /\ isSubmitting ~> ~isSubmitting

\* the flag is cleared while the rendered view still shows a submission in flight
C3_Witness ==
    /\ view.isSubmitting
    /\ ~isSubmitting
    /\ sends = <<>>

\* C4: a send that throws or resolves with no result leaves content as it was
\* when the send settled and makes no onPost call.
C4_FailureKeepsContent ==
    [][SendFails => content' = content /\ ~HasCall(calls', "onPost")]_vars

\* a send of "a" has thrown: the text is still there and can be sent again
C4_Witness ==
    /\ HasCall(calls, "toast.error")
    /\ content = "a"
    /\ sends = <<>>
    /\ ~isSubmitting

\* C5: a send that throws and a send that resolves with no result both make
\* handlePost call toast.error before it returns.
C5_FailureNotified ==
    [][SendFails => HasCall(calls', "toast.error")]_vars

----------------------------------------------------------------------------
(* Properties of mention validation (checked under MentionSpec) *)

\* the keys the validator accepted, in the order it returned them
RECURSIVE AcceptedKeys(_)
AcceptedKeys(returned) ==
    IF returned = <<>> THEN <<>>
    ELSE (IF Head(returned).result # NoKey
          THEN <<[pubkey |-> Head(returned).result]>> ELSE <<>>)
         \o AcceptedKeys(Tail(returned))

Candidates(returned) == [k \in 1..Len(returned) |-> [pubkey |-> returned[k].pubkey]]

\* C6: the mention effect run for a content without '@' empties
\* validatedMentions in that step and calls neither detectMentionsInText nor
\* validateAndReturnPublicKey.
C6_NoAtNoValidation ==
    [][(RunEffects /\ "mentions" \in effects /\ ~Includes(view.content, "@")) =>
           /\ validatedMentions' = <<>>
           /\ ~HasCall(calls', "detectMentionsInText")
           /\ ~HasCall(calls', "validateAndReturnPublicKey")]_vars

\* the effect has run for "a" and emptied the list that a pass had filled and
\* that the last render still shows
C6_Witness ==
    /\ view.content = "a"
    /\ content = "a"
    /\ effects = {}
    /\ view.validatedMentions # <<>>
    /\ validatedMentions = <<>>
    /\ calls = <<>>

\* C7: the step that completes a pass no other pass overlapped sets
\* validatedMentions to the keys the validator returned for the candidates of
\* the pass's text, in the order of the candidates, rejected ones left out.
C7_PassResult ==
    [][\A i \in 1..Len(passes) :
           \A r \in ValidatorResults(passes[i].mentions[passes[i].next].pubkey) :
               (/\ ValidatorReturns(i, r)
                /\ passes[i].next = Len(passes[i].mentions)
                /\ ~passes[i].overlapped)
               => LET returned ==
                          Append(passes[i].returned,
                                 [pubkey |-> passes[i].mentions[passes[i].next].pubkey,
                                  result |-> r])
                  IN /\ Candidates(returned) = detectMentionsInText(passes[i].text)
                     /\ validatedMentions' = AcceptedKeys(returned)]_vars

\* the pass for "@a @b @c" is complete: a and c accepted, b rejected
C7_Witness ==
    /\ view.content = "@a @b @c"
    /\ passes = <<>>
    /\ validatedMentions = <<[pubkey |-> "pka"], [pubkey |-> "pkc"]>>

----------------------------------------------------------------------------
(* Properties of quiescent states (checked under EditSpec) *)

\* no handler is running, the last render shows the current state and its
\* effects have run
Quiescent == view = Snapshot /\ effects = {}

\* C8: in a quiescent state content has no trailing newline, and serializing
\* the tree of renderContentHtml(content) gives content.
C8_QuiescentRoundTrip ==
    Quiescent =>
        /\ ~EndsWith(content, "\n")
        /\ SerializeChildren(ParseHtml(renderContentHtml(content))) = content

\* a quiescent content with an emote and interior newlines
C8_Witness ==
    /\ Quiescent
    /\ Includes(content, UrlPng)
    /\ Includes(content, "\n")

\* C9: in a quiescent state the editor's serialization with trailing newlines
\* stripped is content, and lastContentRef is content.
C9_QuiescentEditorInSync ==
    Quiescent =>
        /\ TrimTrailingNewlines(SerializeChildren(editor)) = content
        /\ lastContentRef = content

----------------------------------------------------------------------------
(* The renderer applied to texts that hold one URL-like token *)

EmoteStem == "https://cdn.7tv.app/emote/a1/2x."

\* extensions that are not in the list of the pattern and do not begin with
\* one that is
OtherExtensions == {"jpg", "gif", "jpeg", "pn", "web", "avi", "PNG", "svg"}

NonListedExtensionUrls == {EmoteStem \o ext : ext \in OtherExtensions}

\* what can follow a well-formed emote URL without white space in between
TrailingExtras == {"?v=1", "abc", "/b", "#t", "2"}

ExtendedEmoteUrls ==
    {UrlPng \o extra : extra \in TrailingExtras} \cup {"x" \o UrlWebp}

\* URLs that leave the shape before the extension
MalformedUrls ==
    {"https://cdn.7tv.app/emote//2x.png", "https://cdn.7tv.app/emote/a1/x.png",
     "https://cdn.7tv.app/emote/a1/2.png", "https://cdn7tv.app/emote/a1/2x.png",
     "ftp://cdn.7tv.app/emote/a1/2x.png", "https://cdn.7tv.app/emote/a-1/2x.png",
     "https://example.org/a.png"}

UrlTokens ==
    {UrlPng, UrlWebp, EmoteStem \o "avif"}
        \cup NonListedExtensionUrls \cup ExtendedEmoteUrls \cup MalformedUrls

UrlLeads == {"", "a ", "<b>\n"}

UrlTrails == {"", " c", "\n&"}

UrlTexts ==
    {lead \o token \o trail :
         lead \in UrlLeads, token \in UrlTokens, trail \in UrlTrails}

UrlInit ==
    /\ fnArg \in UrlTexts
    /\ fnHtml = ""
    /\ fnTree = <<>>
    /\ fnOut = ""
    /\ fnStep = "arg"
    /\ CompInit
    /\ privateKey = "sk"

UrlSpec == UrlInit /\ [][FnNext]_vars

\* the white-space delimited tokens of a text
RECURSIVE TokenEnd(_, _)
TokenEnd(s, i) ==
    IF i <= Len(s) /\ Ch(s, i) \notin Whitespace THEN TokenEnd(s, i + 1) ELSE i

RECURSIVE TokensFrom(_, _)
TokensFrom(s, i) ==
    IF i > Len(s) THEN {}
    ELSE IF Ch(s, i) \in Whitespace THEN TokensFrom(s, i + 1)
    ELSE {SubSeq(s, i, TokenEnd(s, i) - 1)} \cup TokensFrom(s, TokenEnd(s, i))

Tokens(s) == TokensFrom(s, 1)

\* the token as a whole is http(s)://cdn.7tv.app/emote/<id>/<digits>x.<ext>
ExactEmoteUrl(token) == EmoteMatchEnd(token, 1) = Len(token) + 1

\* the whole output is escaped text: no placeholder, and every character of
\* the input is in the escaped text
RenderedAsText ==
    /\ ~Includes(fnHtml, "<img")
    /\ fnHtml = ReplaceAll(escapeHtml(fnArg), "\n", "<br/>")

C12_InexactUrlIsText ==
    (fnStep = "rendered" /\ \A token \in Tokens(fnArg) : ~ExactEmoteUrl(token))
        => RenderedAsText

----------------------------------------------------------------------------
(* The serializer applied to bounded editor trees *)

Span(kids) == Element("SPAN", {}, kids)

Par(kids) == Element("P", {}, kids)

Containers(kidsSet) ==
    {Div(kids) : kids \in kidsSet} \cup {Par(kids) : kids \in kidsSet}
        \cup {Span(kids) : kids \in kidsSet}

LeafNodes ==
    {TextNode("a"), TextNode("\n"), Img(UrlPng), Element("IMG", {}, <<>>), Br,
     CommentNode("c")}

InnerNodes ==
    LeafNodes \cup Containers({<<>>, <<TextNode("a")>>, <<Br>>})

OuterNodes ==
    LeafNodes
        \cup Containers({<<>>} \cup {<<n>> : n \in InnerNodes}
                            \cup {<<n, m>> : n \in InnerNodes, m \in InnerNodes})

TreeInputs ==
    {<<n>> : n \in OuterNodes}
        \cup {<<l, n>> : l \in {TextNode("a"), Br}, n \in OuterNodes}
        \cup {<<n, l>> : l \in {TextNode("a"), Br}, n \in OuterNodes}

TreeInit ==
    /\ fnArg = ""
    /\ fnHtml = ""
    /\ fnTree \in TreeInputs
    /\ fnOut = ""
    /\ fnStep = "parsed"
    /\ CompInit
    /\ privateKey = "sk"

\* serializeEditorContent(node) for one child of the tree
FnSerializeNode ==
    /\ fnStep = "parsed"
    /\ \E k \in 1..Len(fnTree) :
           /\ fnTree' = <<fnTree[k]>>
           /\ fnOut' = serializeEditorContent(fnTree[k])
    /\ fnStep' = "node"
    /\ UNCHANGED <<fnArg, fnHtml>>
    /\ UNCHANGED compVars

TreeNext == FnSerializeNode \/ FnSerialize

TreeSpec == TreeInit /\ [][TreeNext]_vars

ListedTags == {"IMG", "BR", "DIV", "P"}

\* C13 as stated: serializeEditorContent gives '' for every node that is not
\* a text node, an IMG, a BR, a DIV or a P, whatever its descendants are.
C13_OtherNodesEmpty ==
    (/\ fnStep = "node"
     /\ fnTree[1].nodeType # "TEXT_NODE"
     /\ ~(fnTree[1].nodeType = "ELEMENT_NODE" /\ fnTree[1].tagName \in ListedTags))
        => fnOut = ""

\* C13 amended: serializeEditorContent gives '' for every node that is neither
\* a text node nor an element; for an element other than IMG, BR, DIV and P
\* it gives the concatenation of its children's contributions, with no newline
\* added.
C13_OtherNodesAmended ==
    fnStep = "node" =>
        /\ fnTree[1].nodeType \notin {"TEXT_NODE", "ELEMENT_NODE"} => fnOut = ""
        /\ (fnTree[1].nodeType = "ELEMENT_NODE" /\ fnTree[1].tagName \notin ListedTags)
               => fnOut = SerializeChildren(fnTree[1].childNodes)

\* a SPAN that holds a text and a DIV with a line break
C13_Witness ==
    /\ fnStep = "node"
    /\ fnTree = <<Span(<<TextNode("a"), Div(<<Br>>)>>)>>
    /\ fnOut = "a\n\n"

\* the contribution of a node, for trees of text nodes, IMG, BR, DIV and P
RECURSIVE Contribution(_)
RECURSIVE Contributions(_)
Contributions(nodes) ==
    IF nodes = <<>> THEN ""
    ELSE Contribution(Head(nodes)) \o Contributions(Tail(nodes))

Contribution(node) ==
    CASE node.nodeType = "TEXT_NODE" -> node.data
      [] node.tagName = "IMG" ->
             IF node.dataset = {} THEN "" ELSE CHOOSE u \in node.dataset : TRUE
      [] node.tagName = "BR" -> "\n"
      [] node.tagName \in {"DIV", "P"} -> Contributions(node.childNodes) \o "\n"

RECURSIVE ListedOnly(_)
ListedOnly(node) ==
    \/ node.nodeType = "TEXT_NODE"
    \/ /\ node.nodeType = "ELEMENT_NODE"
       /\ node.tagName \in ListedTags
       /\ \A k \in 1..Len(node.childNodes) : ListedOnly(node.childNodes[k])

\* C14: for a tree of text nodes, IMG, BR, DIV and P, updateContentFromEditor's
\* value is the concatenation of the children's contributions (a DIV or P
\* adding exactly one newline after its children, at any depth and when
\* empty) without its trailing newlines; other newlines are kept.
C14_EditorValue ==
    (fnStep = "serialized" /\ \A k \in 1..Len(fnTree) : ListedOnly(fnTree[k]))
        => fnOut = TrimTrailingNewlines(Contributions(fnTree))

\* a leading line break, an empty DIV in a P, a text, and two trailing newlines
C14_Witness ==
    /\ fnStep = "serialized"
    /\ fnTree = <<Br, Par(<<Div(<<>>), Div(<<TextNode("a")>>)>>)>>
    /\ fnOut = "\n\na"

----------------------------------------------------------------------------
(* Insertion environment: the user types, moves the caret and inserts emoji *)
(* from the picker and from the suggestion list.                            *)

InsertInputs ==
    { Edit(<<>>, EditorCaret(0)),
      Edit(<<TextNode("a")>>, TextRange(1, 1, 1)),
      Edit(<<TextNode("a")>>, TextRange(1, 0, 0)),
      Edit(<<TextNode("b"), Br>>, EditorCaret(2)),
      Edit(<<Div(<<TextNode("b")>>), Div(<<Br>>)>>, EditorCaret(2)),
      Edit(<<TextNode("a :s")>>, TextRange(1, 4, 4)) }

InsertNext ==
    \/ Render
    \/ RunEffects
    \/ \E e \in InsertInputs : InputEvent(e.tree, e.caret)
    \/ \E sel \in Selections(editor) : SelectionEvent(sel)
    \/ \E key \in Keys : KeyDown(key)
    \/ \E k \in 1..MaxSuggestions : SuggestionClick(k)
    \/ \E emoji \in Glyphs : handleEmojiSelect(emoji)

InsertSpec == EditInit /\ [][InsertNext]_vars

\* no valid caret in the editor, or a collapsed caret after the last child or
\* at the end of a text node that is the last child
CaretAtEnd(tree, sel) ==
    \/ sel.kind = "none"
    \/ sel.kind = "editor" /\ sel.start = Len(tree)
    \/ /\ sel.kind = "text"
       /\ sel.node = Len(tree)
       /\ sel.start = sel.end
       /\ sel.end = Len(tree[sel.node].data)

----------------------------------------------------------------------------
(* Suggestion environment: the user types texts with and without a colon    *)
(* query, puts the caret at every offset, moves the highlight and commits.  *)

QueryTexts == {":s", ":sm", "a:s", "a :A", "\n:a-"}

QueryInputs ==
    UNION {{Edit(<<TextNode(t)>>, TextRange(1, k, k)) : k \in 0..Len(t)} :
               t \in QueryTexts}

SuggestNext ==
    \/ Render
    \/ RunEffects
    \/ \E e \in QueryInputs : InputEvent(e.tree, e.caret)
    \/ \E sel \in Selections(editor) : SelectionEvent(sel)
    \/ \E key \in Keys : KeyDown(key)
    \/ \E k \in 1..MaxSuggestions : SuggestionClick(k)

SuggestSpec == EditInit /\ [][SuggestNext]_vars

\* first index of the maximal run of [A-Za-z0-9_+-] that ends at offset
RECURSIVE RunStart(_, _)
RunStart(text, offset) ==
    IF offset >= 1 /\ Ch(text, offset) \in Alpha \cup Digit \cup {"_", "+", "-"}
    THEN RunStart(text, offset - 1)
    ELSE offset + 1

\* the query the claim states for a selection: the run, when it is not empty
\* and follows a colon that starts the text node or follows white space
StatedQuery(tree, sel) ==
    IF sel.kind # "text" THEN ""
    ELSE LET text  == tree[sel.node].data
             start == RunStart(text, sel.end)
         IN IF /\ start <= sel.end
               /\ start >= 2
               /\ Ch(text, start - 1) = ":"
               /\ (start = 2 \/ Ch(text, start - 2) \in {" ", "\n", "\t", "\r"})
            THEN SubSeq(text, start, sel.end)
            ELSE ""

\* C16: updateEmojiQueryFromSelection sets emojiQuery to the maximal run of
\* [A-Za-z0-9_+-] before the caret when the run is not empty and follows a
\* colon at the start of the text node or after white space; otherwise it
\* sets emojiQuery to '' and emojiRangeRef to null.
C16_QueryFromSelection ==
    [][/\ \A e \in QueryInputs :
              InputEvent(e.tree, e.caret) =>
                  /\ emojiQuery' = StatedQuery(e.tree, e.caret)
                  /\ StatedQuery(e.tree, e.caret) = "" => emojiRangeRef' = NullRange
       /\ \A sel \in Selections(editor) :
              SelectionEvent(sel) =>
                  /\ emojiQuery' = StatedQuery(editor, sel)
                  /\ StatedQuery(editor, sel) = "" => emojiRangeRef' = NullRange]_vars

\* the caret behind ":A" that follows a blank: the query is A
C16_Witness ==
    /\ editor = <<TextNode("a :A")>>
    /\ selection = TextRange(1, 4, 4)
    /\ emojiQuery = "A"
    /\ emojiRangeRef = RangeInfo(1, 2, 4)

\* the query is rendered and the effects of its render have run
QueryEffectsRun == effects = {} /\ view.emojiQuery = emojiQuery

\* C17: once the reset effect has run for the rendered query and the
\* suggestion list is not empty, emojiActiveIndex is an index of the list;
\* ArrowDown at the last entry and ArrowUp at the first leave it unchanged;
\* and when the component has rendered that state, Enter and Tab find a
\* suggestion at the rendered index.
C17_ActiveIndexInList ==
    /\ [](QueryEffectsRun /\ emojiSuggestions(emojiQuery) # <<>>
              => emojiActiveIndex \in 0..(Len(emojiSuggestions(emojiQuery)) - 1))
    /\ [](Quiescent /\ emojiSuggestions(view.emojiQuery) # <<>>
              => view.emojiActiveIndex + 1
                     \in 1..Len(emojiSuggestions(view.emojiQuery)))
    /\ [][(/\ KeyDown("ArrowDown")
           /\ QueryEffectsRun
           /\ emojiActiveIndex = Len(emojiSuggestions(emojiQuery)) - 1)
              => emojiActiveIndex' = emojiActiveIndex]_vars
    /\ [][(/\ KeyDown("ArrowUp")
           /\ QueryEffectsRun
           /\ emojiSuggestions(emojiQuery) # <<>>
           /\ emojiActiveIndex = 0)
              => emojiActiveIndex' = emojiActiveIndex]_vars

\* the highlight is on the last of the three suggestions for "s"
C17_Witness ==
    /\ Quiescent
    /\ emojiQuery = "s"
    /\ Len(emojiSuggestions(emojiQuery)) = 3
    /\ emojiActiveIndex = 2

----------------------------------------------------------------------------
(* Typing environment: content changes through input events only *)

TypingInputs ==
    { Edit(<<>>, EditorCaret(0)),
      Edit(<<TextNode("a")>>, TextRange(1, 1, 1)),
      Edit(<<TextNode("ab")>>, TextRange(1, 2, 2)),
      Edit(<<TextNode("abc")>>, TextRange(1, 3, 3)),
      Edit(<<TextNode("ab"), Br, Br>>, EditorCaret(3)),
      Edit(<<TextNode("ab"), Div(<<TextNode("c")>>)>>, EditorCaret(2)),
      Edit(<<Img(UrlPng), TextNode("<")>>, TextRange(2, 1, 1)) }

TypingNext ==
    \/ Render
    \/ RunEffects
    \/ \E e \in TypingInputs : InputEvent(e.tree, e.caret)

TypingSpec == EditInit /\ [][TypingNext]_vars

\* C18: when content changes through input events only, the re-render effect
\* never replaces the editor's tree, also when an input event happens before
\* the effect for the previous one has run.
C18_NoRebuildAfterInput == [][RunEffects => editor' = editor]_vars

----------------------------------------------------------------------------
(* Stale mention passes (checked under MentionSpec) *)

\* C19: a pass started for an older content that completes after the effect
\* for the newer content has run still writes its own list to
\* validatedMentions: passes are neither cancelled nor sequenced.
C19_StalePassWrites ==
    [][\A i \in 1..Len(passes) :
           \A r \in ValidatorResults(passes[i].mentions[passes[i].next].pubkey) :
               (/\ ValidatorReturns(i, r)
                /\ passes[i].next = Len(passes[i].mentions)
                /\ passes[i].text # view.content
                /\ effects = {})
               => validatedMentions' =
                      AcceptedKeys(Append(passes[i].returned,
                          [pubkey |-> passes[i].mentions[passes[i].next].pubkey,
                           result |-> r]))]_vars

\* the content is "a", whose effect has emptied the list, and the list holds
\* the keys of the pass that was started for "@a @b @c"
C19_Witness ==
    /\ content = "a"
    /\ view.content = "a"
    /\ effects = {}
    /\ passes = <<>>
    /\ validatedMentions = <<[pubkey |-> "pka"], [pubkey |-> "pkc"]>>

----------------------------------------------------------------------------
(* Successful submission (checked under SubmitSpec) *)

CallsOf(cs, fn) == {k \in 1..Len(cs) : cs[k].fn = fn}

----------------------------------------------------------------------------
(* The submission guard (checked under SubmitSpec) *)

\* the text has a character that is not white space
HasInk(text) == \E k \in 1..Len(text) : Ch(text, k) \notin {" ", "\n", "\t", "\r"}

\* C21: sendTransaction is called only by a handlePost whose content has a
\* character that is not white space and whose privateKey is present; a
\* handlePost for which either fails makes no send, leaves isSubmitting,
\* content and validatedMentions as they are and does not call onPost.
C21_SendGuard ==
    /\ [][HasCall(calls', "sendTransaction") =>
              /\ handlePost
              /\ HasInk(view.content)
              /\ privateKey # ""
              /\ \A k \in CallsOf(calls', "sendTransaction") :
                     /\ HasInk(calls'[k].arg.userMessage)
                     /\ calls'[k].arg.privateKey # ""]_vars
    /\ [][(handlePost /\ (~HasInk(view.content) \/ privateKey = "")) =>
              /\ ~HasCall(calls', "sendTransaction")
              /\ sends' = sends
              /\ UNCHANGED <<isSubmitting, content, validatedMentions>>
              /\ ~HasCall(calls', "onPost")]_vars

\* handlePost has sent "a" with the key
C21_Witness ==
    /\ calls = <<Call("sendTransaction",
                      [privateKey |-> "sk", userMessage |-> "a", type |-> "post",
                       mentionedPubkeys |-> <<>>])>>
    /\ isSubmitting
    /\ Len(sends) = 1

----------------------------------------------------------------------------
(* Committing a suggestion (checked under SuggestSpec) *)

Emojis == {emojiIndex[k].emoji : k \in 1..Len(emojiIndex)}

\* a suggestion holding emoji is committed by a click, Enter or Tab
CommitsSuggestion(emoji) ==
    LET suggestions == emojiSuggestions(view.emojiQuery)
    IN \/ \E k \in 1..Len(suggestions) :
              suggestions[k].emoji = emoji /\ SuggestionClick(k)
       \/ /\ view.emojiActiveIndex + 1 \in 1..Len(suggestions)
          /\ suggestions[view.emojiActiveIndex + 1].emoji = emoji
          /\ KeyDown("Enter") \/ KeyDown("Tab")

\* emojiRangeRef refers to a text node that is a child of the editor
RangeInEditor ==
    /\ emojiRangeRef.set
    /\ emojiRangeRef.node \in 1..Len(editor)
    /\ editor[emojiRangeRef.node].nodeType = "TEXT_NODE"

\* C22: a suggestion committed while emojiRangeRef refers to a text node of
\* the editor replaces the colon and the query run behind it (start up to end
\* of the range) by the emoji and one space; what the editor holds before the
\* colon and after the caret is in content as before; emojiQuery becomes ''
\* and emojiRangeRef null.
C22_CommitReplacesQuery ==
    [][\A emoji \in Emojis :
           (CommitsSuggestion(emoji) /\ RangeInEditor) =>
               LET r      == emojiRangeRef
                   text   == editor[r.node].data
                   run    == SubSeq(text, r.start + 2, r.end)
                   before == SerializeChildren(SubSeq(editor, 1, r.node - 1))
                                 \o SubSeq(text, 1, r.start)
                   after  == SubSeq(text, r.end + 1, Len(text))
                                 \o SerializeChildren(
                                        SubSeq(editor, r.node + 1, Len(editor)))
               IN /\ r.end <= Len(text)
                  /\ Ch(text, r.start + 1) = ":"
                  /\ run # ""
                  /\ \A k \in 1..Len(run) :
                         Ch(run, k) \in Alpha \cup Digit \cup {"_", "+", "-"}
                  /\ r.start = r.end - Len(run) - 1
                  /\ content' = TrimTrailingNewlines(before \o emoji \o " " \o after)
                  /\ emojiQuery' = ""
                  /\ emojiRangeRef' = NullRange]_vars

\* ":a" between a newline and a hyphen was replaced by the first suggestion
C22_Witness ==
    /\ inserts = 1
    /\ editor = <<TextNode("\n"), TextNode("%! "), TextNode("-")>>
    /\ content = "\n%! -"
    /\ emojiQuery = ""
    /\ emojiRangeRef = NullRange

----------------------------------------------------------------------------
(* Mentions sent with a post (checked under SubmitSpec) *)

\* the keys that validating the candidates of text gives, in their order
ValidKeysOf(text) ==
    LET candidates == detectMentionsInText(text)
        answers    == [k \in 1..Len(candidates) |->
                          [pubkey |-> candidates[k].pubkey,
                           result |-> CHOOSE r \in ValidatorResults(candidates[k].pubkey) :
                                          TRUE]]
    IN Pubkeys(AcceptedKeys(answers))

\* C23: in every sendTransaction call mentionedPubkeys is the list of keys
\* that validating the mention candidates of the call's userMessage gives.
C23_MentionsOfSentText ==
    [][\A k \in CallsOf(calls', "sendTransaction") :
           calls'[k].arg.mentionedPubkeys = ValidKeysOf(calls'[k].arg.userMessage)]_vars

----------------------------------------------------------------------------
(* In-flight environment: the user submits what the component has rendered  *)
(* and goes on typing while the send is pending.                            *)

FlightNext ==
    \/ Render
    \/ RunEffects
    \/ \E e \in SettleInputs : InputEvent(e.tree, e.caret)
    \/ Quiescent /\ handlePost
    \/ SendSettles

FlightSpec == EditInit /\ [][FlightNext]_vars

\* C24: when a send resolves with a result while content holds another,
\* non-blank text than the one sent (the user has typed since), content keeps
\* that text.
C24_NewerTextKept ==
    [][\A i \in 1..Len(sends) : \A hide \in BOOLEAN :
           (/\ SendResolves(i, hide)
            /\ content # sends[i].userMessage
            /\ HasInk(content))
               => content' = content]_vars

----------------------------------------------------------------------------
(* Settled environment: every handler and every settling send runs on a     *)
(* state the component has rendered and whose effects have run.             *)

SettledNext ==
    \/ Render
    \/ RunEffects
    \/ Quiescent /\ \E e \in EditInputs \cup SettleInputs : InputEvent(e.tree, e.caret)
    \/ Quiescent /\ \E key \in Keys : KeyDown(key)
    \/ Quiescent /\ \E k \in 1..MaxSuggestions : SuggestionClick(k)
    \/ Quiescent /\ handlePost
    \/ Quiescent /\ SendSettles

SettledSpec == EditInit /\ [][SettledNext]_vars

----------------------------------------------------------------------------
(* The replacement range (checked under SettledSpec) *)

\* C25: emojiQuery is not empty exactly when emojiRangeRef is not null, and
\* a range that is not null names a text node that is a child of the editor
\* and offsets with 0 <= start < end <= the length of the node's text.
C25_RangeValid ==
    /\ emojiQuery # "" <=> emojiRangeRef.set
    /\ emojiRangeRef.set =>
           /\ emojiRangeRef.node \in 1..Len(editor)
           /\ editor[emojiRangeRef.node].nodeType = "TEXT_NODE"
           /\ 0 <= emojiRangeRef.start
           /\ emojiRangeRef.start < emojiRangeRef.end
           /\ emojiRangeRef.end <= Len(editor[emojiRangeRef.node].data)

=============================================================================
